---------------------------- MODULE Spec2Model ----------------------------
(***************************************************************************)
(* A model of wak.py: the container codec (Reader, Writer, parse_wak,      *)
(* save_wak) and the canonical ordering of a directory tree (str_gt,       *)
(* path_cmp, dir_to_files).                                                *)
(*                                                                         *)
(* Bytes are integers 0..255, byte strings are sequences of bytes, Python  *)
(* str values are sequences of code points.  An Optional[int] is <<>>      *)
(* (None) or <<n>>.                                                        *)
(***************************************************************************)
EXTENDS Integers, Sequences, FiniteSets, TLC

VARIABLES
    files,      \* the List[File] handed to save_wak
    wak,        \* the bytes of the archive file on disk
    origin,     \* "none" | "saved" | "truncated" | "corrupted": how wak came to be
    parsed,     \* outcome of the last parse_wak of wak
    data,       \* Writer.data of a stand-alone Writer
    lastOp,     \* the last Writer method called, with its arguments
    nOps,       \* number of Writer calls made so far
    tree,       \* the directory tree on disk: a set of nodes
    listing,    \* what os.listdir returned for every directory in the last run
    cur,        \* result of the last dir_to_files run on the tree
    prev,       \* result of the run before
    permuted,   \* the last two runs saw different os.listdir orders
    sx, sy, sz, \* three strings
    less        \* str_less on every ordered pair of them

codecVars  == <<files, wak, origin, parsed>>
writerVars == <<data, lastOp, nOps>>
orderVars  == <<tree, listing, cur, prev, permuted>>
strVars    == <<sx, sy, sz, less>>
vars       == <<codecVars, writerVars, orderVars, strVars>>

(***************************************************************************)
(* Bounds of the model.                                                    *)
(***************************************************************************)
MaxFiles      == 2   \* entries per archive
MaxPathLen    == 1   \* code points per path
MaxContentLen == 1   \* bytes per content
MaxStrLen     == 2   \* code points per compared string
MaxNodes      == 3   \* files and directories in a tree
MaxDepth      == 2   \* nesting of a tree
MaxOps        == 2   \* calls on a stand-alone Writer
MaxWrite      == 2   \* bytes handed to one Writer call

\* 'a' and 'e-acute' (two bytes in UTF-8)
PathChars    == {97, 233}
\* paths of archives that get damaged: ASCII only
PlainChars   == {97}
ContentBytes == {0, 65}
PlainBytes   == {65}
\* 'B' < '_' < 'a' < 'b' in code-point order
StrChars     == {66, 95, 97, 98}

Min(a, b) == IF a < b THEN a ELSE b

SeqsUpTo(S, n) == UNION {[1..k -> S] : k \in 0..n}

(***************************************************************************)
(* Python primitives.                                                      *)
(***************************************************************************)
None == <<>>
Some(x) == <<x>>

\* s[lo:hi] for 0 <= lo and 0 <= count, hi = lo + count: a Python slice never
\* fails, it is cut to the length of s
Slice(s, lo, count) ==
    LET l == Min(lo, Len(s))
        h == IF count >= Len(s) - l THEN Len(s) ELSE l + count
    IN  SubSeq(s, l + 1, h)

\* int.to_bytes(length, byteorder="little"), for value < 256^length
ToBytes(value, length) ==
    [i \in 1..length |-> (value \div (256 ^ (i - 1))) % 256]

\* str.encode() of one code point
Utf8Char(c) ==
    IF c < 128 THEN <<c>>
    ELSE IF c < 2048 THEN <<192 + (c \div 64), 128 + (c % 64)>>
    ELSE IF c < 65536
         THEN <<224 + (c \div 4096), 128 + ((c \div 64) % 64), 128 + (c % 64)>>
    ELSE <<240 + (c \div 262144), 128 + ((c \div 4096) % 64),
           128 + ((c \div 64) % 64), 128 + (c % 64)>>

RECURSIVE Utf8Encode(_)
Utf8Encode(s) ==
    IF s = <<>> THEN <<>> ELSE Utf8Char(Head(s)) \o Utf8Encode(Tail(s))

IsCont(b) == b >= 128 /\ b < 192

\* bytes.decode("utf-8"): [ok |-> TRUE, str |-> code points], or ok = FALSE
\* where Python raises UnicodeDecodeError
RECURSIVE Utf8Decode(_)
Utf8Decode(bs) ==
    IF bs = <<>> THEN [ok |-> TRUE, str |-> <<>>]
    ELSE
    LET b0 == bs[1]
        n  == IF b0 < 128 THEN 1
              ELSE IF b0 >= 194 /\ b0 < 224 THEN 2
              ELSE IF b0 >= 224 /\ b0 < 240 THEN 3
              ELSE IF b0 >= 240 /\ b0 < 245 THEN 4
              ELSE 0
        wellFormed ==
            /\ n > 0
            /\ Len(bs) >= n
            /\ \A i \in 2..n : IsCont(bs[i])
            /\ (b0 = 224 => bs[2] >= 160)
            /\ (b0 = 237 => bs[2] < 160)
            /\ (b0 = 240 => bs[2] >= 144)
            /\ (b0 = 244 => bs[2] < 144)
        c  == IF n = 1 THEN b0
              ELSE IF n = 2 THEN (b0 - 192) * 64 + (bs[2] - 128)
              ELSE IF n = 3 THEN (b0 - 224) * 4096 + (bs[2] - 128) * 64 + (bs[3] - 128)
              ELSE (b0 - 240) * 262144 + (bs[2] - 128) * 4096
                   + (bs[3] - 128) * 64 + (bs[4] - 128)
    IN  IF ~wellFormed THEN [ok |-> FALSE, str |-> <<>>]
        ELSE LET rest == Utf8Decode(SubSeq(bs, n + 1, Len(bs)))
             IN  IF rest.ok THEN [ok |-> TRUE, str |-> <<c>> \o rest.str]
                 ELSE rest

(***************************************************************************)
(* class Reader.  The read position is passed and returned explicitly; it  *)
(* is kept at most Len(data), which no read can tell from a larger one.    *)
(***************************************************************************)
\* Reader.read_bytes: the slice, and the new ptr
read_bytes(rdata, ptr, count) ==
    [val |-> Slice(rdata, ptr, count),
     ptr |-> IF count >= Len(rdata) - ptr THEN Len(rdata) ELSE ptr + count]

RECURSIVE LeValue(_)
LeValue(bs) == IF bs = <<>> THEN 0 ELSE Head(bs) + 256 * LeValue(Tail(bs))

\* Reader.read_le
read_le(rdata, ptr, count) ==
    LET r == read_bytes(rdata, ptr, count)
    IN  [val |-> LeValue(r.val), ptr |-> r.ptr]

\* Reader.read_str
read_str(rdata, ptr, length_count) ==
    LET length == read_le(rdata, ptr, length_count)
        raw    == read_bytes(rdata, length.ptr, length.val)
        dec    == Utf8Decode(raw.val)
    IN  [ok |-> dec.ok, val |-> dec.str, ptr |-> raw.ptr]

\* Reader.bytes_at
bytes_at(rdata, addr, count) == Slice(rdata, addr, count)

\* an assertion that checks nothing
assertion_unchecked(rdata, ptr, lit) ==
    [ok |-> TRUE, ptr |-> read_bytes(rdata, ptr, Len(lit)).ptr]

\* Reader.assertion: whether the assert passes, and the new ptr
assertion(rdata, ptr, lit) ==
    LET r == read_bytes(rdata, ptr, Len(lit))
    IN  [ok |-> r.val = lit, ptr |-> r.ptr]

(***************************************************************************)
(* class Writer, as functions from the buffer to the new buffer.           *)
(***************************************************************************)
\* the offset write_str hands to write_bytes for the raw bytes: lambda x: x + 4
StrBodyAt(x) == x + 4

\* fmap, whose only caller passes it that lambda
fmap(opt) == IF opt # None THEN Some(StrBodyAt(opt[1])) ELSE None

\* Writer.write_bytes: append, or the slice assignment data[at:len(bs)+at] = bs
write_bytes(wdata, bs, at) ==
    IF at = None THEN wdata \o bs
    ELSE SubSeq(wdata, 1, Min(at[1], Len(wdata)))
         \o bs
         \o SubSeq(wdata, Min(at[1] + Len(bs), Len(wdata)) + 1, Len(wdata))

\* Writer.write_le
write_le(wdata, value, length, at) ==
    write_bytes(wdata, ToBytes(value, length), at)

\* Writer.write_str
write_str(wdata, string, length_count, at) ==
    write_bytes(write_le(wdata, Len(string), length_count, at),
                string, fmap(at))

(***************************************************************************)
(* parse_wak.  The outcome records the exception raised ("ok" when none),  *)
(* the list returned, and the rows display() was called with (addr, size   *)
(* and path of every record read before the function ended).              *)
(***************************************************************************)
Zeros4 == <<0, 0, 0, 0>>

File(path, content) == [path |-> path, content |-> content]

NotParsed == [status |-> "none", reason |-> "", files |-> <<>>, table |-> <<>>]

Raised(exc, reason) ==
    [status |-> exc, reason |-> reason, files |-> <<>>, table |-> <<>>]

\* the for loop of parse_wak with n records left to read; fs and rows are
\* the files appended and the rows displayed so far
RECURSIVE ParseRecords(_, _, _, _, _)
ParseRecords(rdata, ptr, n, fs, rows) ==
    IF n = 0 THEN [status |-> "ok", reason |-> "", files |-> fs, table |-> rows]
    ELSE
    LET addr    == read_le(rdata, ptr, 4)
        size    == read_le(rdata, addr.ptr, 4)
        path    == read_str(rdata, size.ptr, 4)
        content == bytes_at(rdata, addr.val, size.val)
        row     == [addr |-> addr.val, size |-> size.val, path |-> path.val]
    IN  IF ~path.ok
        THEN [status |-> "UnicodeDecodeError", reason |-> "",
              files |-> <<>>, table |-> rows]
        ELSE ParseRecords(rdata, path.ptr, n - 1,
                          Append(fs, File(path.val, content)), Append(rows, row))

parse_wak(rdata) ==
    LET head == assertion(rdata, 0, Zeros4)
        file_count == read_le(rdata, head.ptr, 4)
        first_file == read_le(rdata, file_count.ptr, 4)
        tail == assertion(rdata, first_file.ptr, Zeros4)
    IN  IF ~head.ok THEN Raised("AssertionError", "header start")
        ELSE IF ~tail.ok THEN Raised("AssertionError", "header end")
        ELSE ParseRecords(rdata, tail.ptr, file_count.val, <<>>, <<>>)

(***************************************************************************)
(* save_wak                                                                *)
(***************************************************************************)
write_file_header(wdata, start, file) ==
    LET w1 == write_le(wdata, start, 4, None)
        w2 == write_le(w1, Len(file.content), 4, None)
    IN  write_str(w2, Utf8Encode(file.path), 4, None)

write_file_content(wdata, file) ==
    write_bytes(write_bytes(wdata, file.content, None), <<0>>, None)

\* sum(12 + len(file.path) for file in files): len of a str counts code points
RECURSIVE TableSize(_)
TableSize(fs) ==
    IF fs = <<>> THEN 0 ELSE 12 + Len(Head(fs).path) + TableSize(Tail(fs))

start_offset(fs) == 16 + TableSize(fs)

\* start_offset += len(file.content) + 1
NextOffsetNoPad(start, file) == start + Len(file.content)
NextOffset(start, file) == start + Len(file.content) + 1

RECURSIVE WriteHeaders(_, _, _)
WriteHeaders(wdata, fs, start) ==
    IF fs = <<>> THEN wdata
    ELSE WriteHeaders(write_file_header(wdata, start, Head(fs)),
                      Tail(fs), NextOffset(start, Head(fs)))

RECURSIVE WriteContents(_, _)
WriteContents(wdata, fs) ==
    IF fs = <<>> THEN wdata
    ELSE WriteContents(write_file_content(wdata, Head(fs)), Tail(fs))

save_wak(fs) ==
    LET w1 == write_bytes(<<>>, Zeros4, None)
        w2 == write_le(w1, Len(fs), 4, None)
        w3 == write_le(w2, start_offset(fs), 4, None)
        w4 == write_bytes(w3, Zeros4, None)
        w5 == WriteHeaders(w4, fs, start_offset(fs))
    IN  WriteContents(w5, fs)

(***************************************************************************)
(* The codec as a state machine: save_wak writes the archive file,         *)
(* parse_wak reads it; in between the file may get cut short or have one   *)
(* byte changed.                                                           *)
(***************************************************************************)
UniquePaths(fs) == \A i, j \in 1..Len(fs) : i # j => fs[i].path # fs[j].path

EntrySeqsOver(chars, bytes) ==
    LET Files == {File(p, c) : p \in SeqsUpTo(chars, MaxPathLen),
                               c \in SeqsUpTo(bytes, MaxContentLen)}
    IN  {fs \in SeqsUpTo(Files, MaxFiles) : UniquePaths(fs)}

EntrySeqs      == EntrySeqsOver(PathChars, ContentBytes)
PlainEntrySeqs == EntrySeqsOver(PlainChars, PlainBytes)

\* values a changed byte takes
DamageBytes == {0, 1}

\* bytes that may change: all but the three high bytes of file_count, which
\* keeps the loop of parse_wak below 2^8 rounds
DamagePositions == (1..Len(wak)) \ {6, 7, 8}

InitCodec ==
    /\ files = <<>>
    /\ wak = <<>>
    /\ origin = "none"
    /\ parsed = NotParsed

SaveWak(fs) ==
    /\ origin = "none"
    /\ files' = fs
    /\ wak' = save_wak(fs)
    /\ origin' = "saved"
    /\ parsed' = NotParsed

ParseWak ==
    /\ origin # "none"
    /\ parsed = NotParsed
    /\ parsed' = parse_wak(wak)
    /\ UNCHANGED <<files, wak, origin>>

Truncate(k) ==
    /\ origin = "saved"
    /\ k < Len(wak)
    /\ wak' = SubSeq(wak, 1, k)
    /\ origin' = "truncated"
    /\ parsed' = NotParsed
    /\ UNCHANGED files

Corrupt(i, b) ==
    /\ origin = "saved"
    /\ wak[i] # b
    /\ wak' = [wak EXCEPT ![i] = b]
    /\ origin' = "corrupted"
    /\ parsed' = NotParsed
    /\ UNCHANGED files

IdleCodec  == InitCodec
IdleWriter == data = <<>> /\ lastOp = [op |-> "none"] /\ nOps = 0
IdleOrder  == tree = {} /\ listing = <<>> /\ cur = None /\ prev = None /\ permuted = FALSE
IdleStr    == sx = <<>> /\ sy = <<>> /\ sz = <<>> /\ less = <<>>

Init == InitCodec /\ IdleWriter /\ IdleOrder /\ IdleStr

Next ==
    \/ /\ origin = "none"
       /\ \E fs \in EntrySeqs : SaveWak(fs)
       /\ UNCHANGED <<writerVars, orderVars, strVars>>
    \/ ParseWak /\ UNCHANGED <<writerVars, orderVars, strVars>>

Spec == Init /\ [][Next]_vars

NextDamage ==
    \/ /\ origin = "none"
       /\ \E fs \in PlainEntrySeqs : SaveWak(fs)
       /\ UNCHANGED <<writerVars, orderVars, strVars>>
    \/ \E k \in 0..Len(wak) : Truncate(k) /\ UNCHANGED <<writerVars, orderVars, strVars>>
    \/ \E i \in DamagePositions, b \in DamageBytes :
           Corrupt(i, b) /\ UNCHANGED <<writerVars, orderVars, strVars>>
    \/ ParseWak /\ UNCHANGED <<writerVars, orderVars, strVars>>

SpecDamage == Init /\ [][NextDamage]_vars

(***************************************************************************)
(* Claims about the codec.                                                 *)
(***************************************************************************)
\* the header field at offset 8 of the archive
ContentStart == LeValue(SubSeq(wak, 9, 12))

\* 16 + the sum of 12 + the UTF-8 byte length of each path
RECURSIVE Utf8TableEnd(_)
Utf8TableEnd(fs) ==
    IF fs = <<>> THEN 16
    ELSE 12 + Len(Utf8Encode(Head(fs).path)) + Utf8TableEnd(Tail(fs))

RECURSIVE ContentRegionSize(_)
ContentRegionSize(fs) ==
    IF fs = <<>> THEN 0 ELSE Len(Head(fs).content) + 1 + ContentRegionSize(Tail(fs))

\* C1: parse_wak of the archive save_wak wrote for E returns E: as many
\* entries, in the same order, with the same paths and content bytes.
RoundTrip ==
    (origin = "saved" /\ parsed # NotParsed)
        => (parsed.status = "ok" /\ parsed.files = files)

\* C2: the content_start_offset save_wak writes at header offset 8 is
\* 16 + the sum of (12 + UTF-8 byte length of the path), which is the size
\* of the header and table it writes; with no entries it is 16 and the
\* archive is the 16-byte header.
ContentStartIsTableEnd ==
    origin = "saved" =>
        /\ ContentStart = Utf8TableEnd(files)
        /\ ContentStart = Len(wak) - ContentRegionSize(files)
        /\ (files = <<>> => ContentStart = 16 /\ Len(wak) = 16)

\* C3: in an archive save_wak wrote, the addr values of the table increase
\* strictly, the first is content_start_offset, each later one is the
\* previous addr + previous size + 1, and no two ranges [addr, addr+size)
\* overlap, zero sizes included.
OffsetsMonotone ==
    (origin = "saved" /\ parsed.status = "ok") =>
        LET t == parsed.table
        IN  /\ Len(t) = Len(files)
            /\ \A i \in 1..Len(t) : t[i].size = Len(files[i].content)
            /\ (t # <<>> => t[1].addr = ContentStart)
            /\ \A i \in 2..Len(t) :
                   /\ t[i].addr = t[i-1].addr + t[i-1].size + 1
                   /\ t[i].addr > t[i-1].addr
            /\ \A i, j \in 1..Len(t) :
                   i # j => \A k \in t[i].addr .. (t[i].addr + t[i].size - 1) :
                               ~(t[j].addr <= k /\ k < t[j].addr + t[j].size)

\* C3 witness: an archive of two entries, one of them empty, has been
\* written and its table read back.
OffsetsMonotoneWitness ==
    /\ origin = "saved"
    /\ parsed.status = "ok"
    /\ Len(parsed.table) = 2
    /\ parsed.table[1].size = 0
    /\ parsed.table[2].size > 0

\* C4: parse_wak of a valid archive cut off where a read of the file table
\* demands more bytes than remain returns no entries and raises Truncated.
TruncatedRaises ==
    (/\ origin = "truncated"
     /\ 16 <= Len(wak)
     /\ Len(wak) < Utf8TableEnd(files)
     /\ parsed # NotParsed)
        => (parsed.status = "Truncated" /\ parsed.files = <<>>)

\* C5: parse_wak raises OutOfRange when a record's addr + size exceeds the
\* buffer length, so every entry it returns has a content of size bytes.
OutOfRangeRaises ==
    parsed # NotParsed =>
        /\ (\E i \in 1..Len(parsed.table) :
                parsed.table[i].size > Len(wak) - parsed.table[i].addr)
              => parsed.status = "OutOfRange"
        /\ \A i \in 1..Len(parsed.files) :
              Len(parsed.files[i].content) = parsed.table[i].size

MagicPositions == (1..4) \cup (13..16)

\* C6: when a byte of the leading magic (offsets 0..3) or of the trailing
\* magic (offsets 12..15) is not zero, parse_wak fails its header assertion
\* before it reads a table record, and returns no entries.
MagicChecked ==
    (parsed # NotParsed /\ \E i \in MagicPositions : i <= Len(wak) /\ wak[i] # 0)
        => /\ parsed.status = "AssertionError"
           /\ parsed.files = <<>>
           /\ parsed.table = <<>>

\* C6 witness: an archive with entries whose trailing magic got a non-zero
\* byte has been parsed.
MagicCheckedWitness ==
    /\ origin = "corrupted"
    /\ files # <<>>
    /\ wak[14] # 0
    /\ parsed.status = "AssertionError"
    /\ parsed.reason = "header end"

(***************************************************************************)
(* A stand-alone Writer: the three methods called in any order, appending  *)
(* (at = None) or patching at an offset of the buffer.                     *)
(***************************************************************************)
WriterBytes  == {65, 66}
LengthCounts == {1, 2, 4}
LeValues     == {1, 258}

Offsets == {None} \cup {Some(k) : k \in 0..Len(data)}

InitWriter ==
    /\ data = <<>>
    /\ lastOp = [op |-> "none"]
    /\ nOps = 0

WriteBytes(bs, at) ==
    /\ nOps < MaxOps
    /\ data' = write_bytes(data, bs, at)
    /\ lastOp' = [op |-> "write_bytes", arg |-> bs, at |-> at, before |-> data]
    /\ nOps' = nOps + 1

\* whether value.to_bytes(length) fits; the values here are below 256^4
Fits(value, length) == length >= 4 \/ value < 256 ^ length

\* int.to_bytes raises OverflowError when the value does not fit
WriteLe(value, length, at) ==
    /\ nOps < MaxOps
    /\ data' = IF Fits(value, length) THEN write_le(data, value, length, at)
               ELSE data
    /\ lastOp' = [op |-> "write_le", arg |-> value, length |-> length, at |-> at,
                  before |-> data,
                  raised |-> IF Fits(value, length) THEN "" ELSE "OverflowError"]
    /\ nOps' = nOps + 1

WriteStr(string, length_count, at) ==
    /\ nOps < MaxOps
    /\ data' = write_str(data, string, length_count, at)
    /\ lastOp' = [op |-> "write_str", arg |-> string, length |-> length_count,
                  at |-> at, before |-> data]
    /\ nOps' = nOps + 1

NextWriter ==
    \/ \E bs \in SeqsUpTo(WriterBytes, MaxWrite), at \in Offsets :
           WriteBytes(bs, at) /\ UNCHANGED <<codecVars, orderVars, strVars>>
    \/ \E v \in LeValues, n \in LengthCounts, at \in Offsets :
           WriteLe(v, n, at) /\ UNCHANGED <<codecVars, orderVars, strVars>>
    \/ \E bs \in SeqsUpTo(WriterBytes, MaxWrite), n \in LengthCounts, at \in Offsets :
           WriteStr(bs, n, at) /\ UNCHANGED <<codecVars, orderVars, strVars>>

InitW == IdleCodec /\ InitWriter /\ IdleOrder /\ IdleStr

SpecWriter == InitW /\ [][NextWriter]_vars

\* C10: write_str with an offset inside the buffer writes the length as
\* length_count little-endian bytes at the offset and the raw bytes right
\* after them, at offset + length_count, for every length_count.
StrBodyFollowsLength ==
    (/\ lastOp.op = "write_str"
     /\ lastOp.at # None
     /\ lastOp.at[1] < Len(lastOp.before))
        => /\ Slice(data, lastOp.at[1], lastOp.length)
                 = ToBytes(Len(lastOp.arg), lastOp.length)
           /\ Slice(data, lastOp.at[1] + lastOp.length, Len(lastOp.arg))
                 = lastOp.arg

(***************************************************************************)
(* str_gt and the order it gives.                                          *)
(***************************************************************************)
\* the code point of "_"
Underscore == 95

\* Python's a > b on two str: by code point, a proper prefix is the lesser
RECURSIVE PyStrGt(_, _)
PyStrGt(a, b) ==
    IF a = <<>> THEN FALSE
    ELSE IF b = <<>> THEN TRUE
    ELSE IF Head(a) # Head(b) THEN Head(a) > Head(b)
    ELSE PyStrGt(Tail(a), Tail(b))

\* str_gt without the underscore rule
str_gt_plain(a, b) == PyStrGt(a, b)

\* str_gt whose first test forgets to look at b[0]
RECURSIVE str_gt_sloppy(_, _)
str_gt_sloppy(a, b) ==
    IF Len(a) = 0 \/ Len(b) = 0 THEN PyStrGt(a, b)
    ELSE IF a[1] = Underscore THEN TRUE
    ELSE IF a[1] # Underscore /\ b[1] = Underscore THEN FALSE
    ELSE IF a[1] = b[1] THEN str_gt_sloppy(Tail(a), Tail(b))
    ELSE PyStrGt(a, b)

RECURSIVE str_gt(_, _)
str_gt(a, b) ==
    IF Len(a) = 0 \/ Len(b) = 0 THEN PyStrGt(a, b)
    ELSE IF a[1] = Underscore /\ b[1] # Underscore THEN TRUE
    ELSE IF a[1] # Underscore /\ b[1] = Underscore THEN FALSE
    ELSE IF a[1] = b[1] THEN str_gt(Tail(a), Tail(b))
    ELSE PyStrGt(a, b)

\* the order path_cmp sorts strings by: x before y
str_less(x, y) == str_gt(y, x)

Strings == SeqsUpTo(StrChars, MaxStrLen)

InitStr ==
    /\ sx \in Strings
    /\ sy \in Strings
    /\ sz \in Strings
    /\ less = <<>>
    /\ IdleCodec /\ IdleWriter /\ IdleOrder

\* str_less applied to every ordered pair of the three strings
StrLess ==
    /\ less = <<>>
    /\ less' = [xx |-> str_less(sx, sx),
                xy |-> str_less(sx, sy), yx |-> str_less(sy, sx),
                yz |-> str_less(sy, sz), zy |-> str_less(sz, sy),
                xz |-> str_less(sx, sz), zx |-> str_less(sz, sx)]
    /\ UNCHANGED <<sx, sy, sz>>

NextStr == StrLess /\ UNCHANGED <<codecVars, writerVars, orderVars>>

SpecStr == InitStr /\ [][NextStr]_vars

IsPrefix(a, b) == Len(a) <= Len(b) /\ SubSeq(b, 1, Len(a)) = a

\* C8: str_less is irreflexive and transitive, and of two different strings
\* exactly one is less than the other, also when one is empty or a prefix
\* of the other.
StrLessStrictTotal ==
    less # <<>> =>
        /\ ~less.xx
        /\ (less.xy /\ less.yz => less.xz)
        /\ (sx # sy => (less.xy # less.yx))
        /\ (sx = sy => ~less.xy /\ ~less.yx)

\* C8 witness: three different strings, two with underscores at different
\* places and one a proper prefix of another, have been compared.
StrLessStrictTotalWitness ==
    /\ less # <<>>
    /\ less.xy /\ less.yz /\ less.xz
    /\ sx # <<>> /\ IsPrefix(sx, sy) /\ sx # sy
    /\ sy[2] = Underscore
    /\ sz # <<>> /\ sz[1] = Underscore

\* the first position at which a and b differ, both having a character there
\* (0 when there is none)
FirstDiff(a, b) ==
    LET D == {i \in 1..Min(Len(a), Len(b)) : a[i] # b[i]}
    IN  IF D = {} THEN 0 ELSE CHOOSE i \in D : \A j \in D : i <= j

\* C9: when x and y first differ at position i, the one with "_" there is
\* the greater; with no "_" there the smaller code point is the lesser;
\* nothing after position i matters.
UnderscoreRule ==
    (less # <<>> /\ FirstDiff(sx, sy) > 0) =>
        LET i == FirstDiff(sx, sy)
        IN  less.xy = (IF sx[i] = Underscore THEN FALSE
                       ELSE IF sy[i] = Underscore THEN TRUE
                       ELSE sx[i] < sy[i])

\* C9 witness: str_less("b", "_a") has been computed and is true, although
\* "_" < "b" by code point.
UnderscoreRuleWitness ==
    /\ less # <<>>
    /\ sx = <<98>>
    /\ sy = <<Underscore, 97>>
    /\ less.xy
    /\ ~less.yx

(***************************************************************************)
(* dir_to_files over a directory tree.  A node of the tree is a file or a  *)
(* directory with the names on the way to it from the root; os.listdir     *)
(* returns the children of a directory in any order.                       *)
(***************************************************************************)
\* "a", "_a", "B"
DirNames     == {<<97>>, <<95, 97>>, <<66>>}
FileContents == {<<>>, <<65>>}
\* str(args.dir): "d"
RootDir      == <<100>>

Parent(p) == SubSeq(p, 1, Len(p) - 1)

DirPaths(t) == {<<>>} \cup {n.path : n \in {m \in t : m.kind = "dir"}}

NodeAt(t, p) == CHOOSE n \in t : n.path = p

RECURSIVE JoinPath(_)
JoinPath(names) ==
    IF names = <<>> THEN <<>>
    ELSE IF Len(names) = 1 THEN names[1]
    ELSE names[1] \o <<47>> \o JoinPath(Tail(names))

\* str(x) of the Path x = root / names
FullStr(p) == RootDir \o <<47>> \o JoinPath(p)

\* str(x.relative_to(root))
RelStr(p) == JoinPath(p)

\* path_cmp that ends without its last return
path_cmp_kinds_only(a, b) ==
    IF a.kind = "dir" /\ b.kind # "dir" THEN FALSE
    ELSE IF b.kind = "dir" /\ a.kind # "dir" THEN TRUE
    ELSE FALSE

path_cmp(a, b) ==
    IF a.kind = "dir" /\ b.kind # "dir" THEN FALSE
    ELSE IF b.kind = "dir" /\ a.kind # "dir" THEN TRUE
    ELSE str_gt(FullStr(b.path), FullStr(a.path))

\* cmp_to_cmp(path_cmp)
cmp_to_cmp(a, b) == IF path_cmp(a, b) THEN -1 ELSE IF path_cmp(b, a) THEN 1 ELSE 0

\* sorted(xs, key=cmp_to_key(cmp)): a stable insertion sort, which is what
\* list.sort does with lists this short; x goes before the first element
\* it compares less than
RECURSIVE InsertSorted(_, _)
InsertSorted(xs, x) ==
    IF xs = <<>> THEN <<x>>
    ELSE IF cmp_to_cmp(x, Head(xs)) < 0 THEN <<x>> \o xs
    ELSE <<Head(xs)>> \o InsertSorted(Tail(xs), x)

RECURSIVE sorted(_)
sorted(xs) ==
    IF xs = <<>> THEN <<>>
    ELSE InsertSorted(sorted(SubSeq(xs, 1, Len(xs) - 1)), xs[Len(xs)])

\* chain.from_iterable
RECURSIVE Chain(_)
Chain(lists) == IF lists = <<>> THEN <<>> ELSE Head(lists) \o Chain(Tail(lists))

\* impl(root, dir, verbose), with lst[dir] what os.listdir(dir) returns
RECURSIVE impl(_, _, _)
impl(t, lst, dir) ==
    LET xs == [i \in 1..Len(lst[dir]) |-> NodeAt(t, dir \o <<lst[dir][i]>>)]
        ordered == sorted(xs)
    IN  Chain([i \in 1..Len(ordered) |->
                 IF ordered[i].kind = "dir"
                 THEN impl(t, lst, ordered[i].path)
                 ELSE <<File(RelStr(ordered[i].path), ordered[i].content)>>])

dir_to_files(t, lst) == impl(t, lst, <<>>)

\* the orders in which the nodes of t can come
Ranks(t) ==
    {r \in [1..Cardinality(t) -> t] : \A i, j \in 1..Cardinality(t) : i # j => r[i] # r[j]}

\* os.listdir of every directory, when the nodes come in the order r
ListDir(t, r) ==
    [d \in DirPaths(t) |->
        LET IsChild(n) == n.path # <<>> /\ Parent(n.path) = d
            kids == SelectSeq(r, IsChild)
        IN  [i \in 1..Len(kids) |-> kids[i].path[Len(kids[i].path)]]]

InitOrder ==
    /\ tree = {}
    /\ listing = <<>>
    /\ cur = None
    /\ prev = None
    /\ permuted = FALSE

\* a change of the tree: what was computed for the old tree is forgotten
AddNode(n) ==
    /\ Cardinality(tree) < MaxNodes
    /\ Len(n.path) <= MaxDepth
    /\ Parent(n.path) \in DirPaths(tree)
    /\ \A m \in tree : m.path # n.path
    /\ tree' = tree \cup {n}
    /\ listing' = <<>>
    /\ cur' = None
    /\ prev' = None
    /\ permuted' = FALSE

CreateFile(d, name, content) ==
    AddNode([path |-> d \o <<name>>, kind |-> "file", content |-> content])

MkDir(d, name) ==
    AddNode([path |-> d \o <<name>>, kind |-> "dir", content |-> <<>>])

DirToFiles(r) ==
    /\ listing' = ListDir(tree, r)
    /\ cur' = Some(dir_to_files(tree, listing'))
    /\ prev' = cur
    /\ permuted' = (cur # None /\ listing' # listing)
    /\ UNCHANGED tree

InitO == IdleCodec /\ IdleWriter /\ InitOrder /\ IdleStr

NextOrder ==
    \/ \E d \in DirPaths(tree), name \in DirNames, c \in FileContents :
           CreateFile(d, name, c) /\ UNCHANGED <<codecVars, writerVars, strVars>>
    \/ \E d \in DirPaths(tree), name \in DirNames :
           MkDir(d, name) /\ UNCHANGED <<codecVars, writerVars, strVars>>
    \/ \E r \in Ranks(tree) :
           DirToFiles(r) /\ UNCHANGED <<codecVars, writerVars, strVars>>

SpecOrder == InitO /\ [][NextOrder]_vars

\* C7: dir_to_files gives the same entry sequence for a tree whatever order
\* os.listdir returns the children in, and the same when called again on
\* the unchanged tree.
OrderIndependent ==
    (cur # None /\ prev # None) => cur = prev

\* C7 witness: two runs over a tree with a file next to a directory that
\* holds a file saw different listings.
OrderIndependentWitness ==
    /\ permuted
    /\ prev # None
    /\ Len(cur[1]) = 2
    /\ \E n, m \in tree :
          /\ n.kind = "dir" /\ m.kind = "file"
          /\ Len(n.path) = 1 /\ Len(m.path) = 1

=============================================================================
